---- MODULE Spec2Model ----
(***************************************************************************)
(* Model of hypereth_sdk.websocket_client.WebSocketClient: one client      *)
(* instance, its asyncio caller tasks (send_request), its receive-loop     *)
(* tasks (_message_handler) and the websockets transport it talks to.      *)
(* asyncio is cooperative: every action below is the code that runs        *)
(* between two suspension points (await) of one task.                      *)
(***************************************************************************)
EXTENDS Integers, Sequences, FiniteSets, TLC

\* ---------------------------------------------------------------- bounds
MaxCalls == 2          \* caller tasks, each issuing one send_request
MaxConnects == 1       \* successful connect() calls on a client that is not connected
MaxAgain == 1          \* successful connect() calls on a client that is connected
MaxSubs == 2           \* subscribe_to_channel / unsubscribe_from_channel calls
MaxFrames == 3         \* frames arriving on one connection

Tasks == 1..MaxCalls
Conns == 1..(MaxConnects + MaxAgain)

\* ------------------------------------------------------------ JSON values
Absent == "<absent>"                 \* a key that is not in the mapping
NoId == 0                            \* data.id missing (None)
Payloads == {"ETH:3000", Absent}
ResponseTypes == {"info", "error"}

\* data object of an inbound reply frame: {id, response: {type, payload}}
ResponseData == [id : 0..MaxCalls, rtype : ResponseTypes, payload : Payloads]
NoData == [id |-> NoId, rtype |-> "none", payload |-> Absent]

\* inbound frames the transport can deliver: well-formed replies
Frames == [form : {"ok"}, channel : {"post"}, data : ResponseData]
NoFrame == [form |-> "none", channel |-> "none", data |-> NoData]

\* what json.loads and the .get chains of _process_message make of a text
\* frame: "ok" is a JSON object whose data, if read, is an object with a
\* hashable id; "notjson" fails to parse; "notobject" parses to a list, a
\* number, a string or null; "baddata" is an object whose data is not an
\* object; "badid" is an object whose data.id is a list or an object
Forms == {"ok", "notjson", "notobject", "baddata", "badid"}
Channels == {"post", "subscriptionResponse", "orderUpdates", "allMids", "trades", Absent}

\* a reply whose data.response is present and is not an object
BadResponses == [id : 0..MaxCalls, rtype : {"notobject"}, payload : {Absent}]

\* every frame the transport can deliver
WireFrames ==
    Frames
    \cup [form : {"ok"}, channel : {"post"}, data : BadResponses]
    \cup [form : {"ok"}, channel : Channels \ {"post"}, data : {NoData}]
    \cup [form : Forms \ {"ok"}, channel : Channels, data : {NoData}]

\* frames of a channel other than "post", and frames without a channel: their
\* data may be anything, an object with an id field included
PushFrames ==
    [form : {"ok"}, channel : Channels \ {"post"},
     data : {NoData} \cup {d \in ResponseData : d.rtype = "info" /\ d.payload = Absent}]

\* exceptions: type, message text, and the values formatted into the text
Exc(type, text, id, detail) ==
    [type |-> type, text |-> text, id |-> id, detail |-> detail]
NoExc == Exc("none", "", 0, Absent)
NotConnected == Exc("APIError", "WebSocket not connected", 0, Absent)
ConnectionFailed == Exc("APIError", "WebSocket connection failed: {e}", 0, Absent)
ApiErrorExc(error_msg) == Exc("APIError", "API Error: {error_msg}", 0, error_msg)
TimedOut(request_id) == Exc("APIError", "Request {request_id} timed out", request_id, Absent)
ConnectionClosedExc == Exc("Exception", "Connection closed", 0, Absent)
TransportClosed == Exc("ConnectionClosed", "", 0, Absent)
Cancelled == Exc("CancelledError", "", 0, Absent)
AttributeErrorExc == Exc("AttributeError", "object has no attribute 'get'", 0, Absent)
NoneTypeError == Exc("AttributeError", "'NoneType' object has no attribute 'send'", 0, Absent)
MetaFailed == Exc("APIError", "Error getting meta: {e}", 0, Absent)

\* what a finished send_request gave its caller
NoOut == [kind |-> "none", value |-> NoData, exc |-> NoExc, facade |-> Absent]
Raise(e) == [kind |-> "raise", value |-> NoData, exc |-> e, facade |-> Absent]

\* ------------------------------------------------------------------ state
VARIABLES
    websocket,          \* self.websocket: 0 is None, else the connection object
    running,            \* self.running
    request_counter,    \* self.request_counter
    pending_requests,   \* self.pending_requests: request id -> future (by owning task)
    calls,              \* per caller task: position in send_request and its future
    handlers,           \* per _message_handler task: position and the connection it reads
    connState,          \* transport: state of each connection object
    nconn,              \* number of connection objects created so far
    disc,               \* the disconnect() call in progress, if any
    last,               \* history: whether the last step handled a frame, and its id
    clients,            \* several WebSocketClient objects: the attributes of each
    heap,               \* the dict objects their pending_requests attributes refer to
    futs,               \* the futures their send_request calls created
    actor,              \* history: the object whose code ran in the last step
    subs,               \* per subscribe/unsubscribe call: its position and outcome
    wire,               \* the control frames transmitted, per connection
    inbox,              \* transport: per connection, the frames that have arrived
                        \* and that recv() has not returned yet, oldest first
    arrived,            \* history: per connection, every frame that arrived, in order
    handled,            \* history: per connection, the frames the loop has handled
    requests,           \* the request mappings callers pass: the value under "id"
    sent,               \* per caller task: the id in the envelope it gave to send
    markets,            \* AsterDexClient: per market, its WebSocketClient attribute
    streams,            \* per subscribe_*_streams call: its position and outcome
    hub                 \* the HyperETHClient.connect() call: its position and outcome

session == <<websocket, running, request_counter, pending_requests, calls,
             handlers, connState, nconn, disc, last>>
instances == <<clients, heap, futs, actor>>
facade == <<subs, wire>>
queues == <<inbox, arrived, handled>>
mappings == <<requests, sent>>
composite == <<markets, streams, hub>>
extras == <<queues, mappings, composite>>
vars == <<session, instances, facade, extras>>

\* ---------------------------------------------------------------- helpers
EmptyMap == [k \in {} |-> 0]
Put(f, k, v) == [x \in DOMAIN f \cup {k} |-> IF x = k THEN v ELSE f[x]]
Pop(f, k) == [x \in DOMAIN f \ {k} |-> f[x]]

\* variant: a future never reports done
NeverDone(c) == FALSE

\* Future.done()
Done(c) == c.fut \in {"result", "exception", "cancelled"}

\* history of the last step: any step but the ones below
Other == [op |-> "other", id |-> NoId, exc |-> NoExc]
\* the loop handled a reply frame with this data.id
Received(id) == [op |-> "message", id |-> id, exc |-> NoExc]
\* the loop handled a malformed frame
Malformed(id) == [op |-> "malformed", id |-> id, exc |-> NoExc]
\* wait_for of task t timed out
TimedOutStep(t) == [op |-> "timeout", id |-> t, exc |-> NoExc]
\* connect() raised e
ConnectRaised(e) == [op |-> "connect raised", id |-> NoId, exc |-> e]

IdleCall == [pc |-> "idle", id |-> 0, conn |-> 0, fut |-> "none", val |-> NoData,
             exc |-> NoExc, settled |-> 0, out |-> NoOut]
IdleHandler == [pc |-> "none", conn |-> 0]
IdleDisc == [pc |-> "idle", conn |-> 0, snap |-> {}, again |-> FALSE]

\* the WebSocketClient objects of one process: HyperETHClient alone creates
\* one for itself and one inside its HyperLiquidClient
Instances == 1..2

\* variant: the table is a class attribute, one dict for every object
shared_dict(i) == 1

\* line 53: self.pending_requests = {} creates a dict for the object
new_dict(i) == i

\* __init__, lines 47-53; open and loop stand for the object's connection and
\* its receive-loop task
__init__(i) ==
    [websocket |-> 0, running |-> FALSE, request_counter |-> 0,
     pending_requests |-> new_dict(i), open |-> FALSE, loop |-> "none"]

NoFut == [state |-> "none", by |-> 0]

\* a subscription identity: a channel with its parameters
Subscriptions == {"trades:SOL"}
Methods == {"subscribe", "unsubscribe"}
NoSub == [pc |-> "idle", method |-> "none", subscription |-> Absent, conn |-> 0,
          out |-> NoOut]
ReturnNone == [kind |-> "return", value |-> NoData, exc |-> NoExc, facade |-> Absent]

\* the request mappings of the callers: mapping 1 is built without an "id"
\* key, mapping 2 with one
Mappings == 1..2
SuppliedId == 1

\* AsterDexClient.__init__, lines 56-57: perp_ws_client and spot_ws_client are
\* None; client is whether the attribute holds a WebSocketClient, websocket
\* whether that object's websocket is set, open whether its connection is
\* open, opened the number of connections opened for the market
Markets == {"perp", "spot"}
NoClient == [client |-> FALSE, websocket |-> FALSE, running |-> FALSE, open |-> FALSE,
             opened |-> 0]
NoStream == [pc |-> "idle", market |-> "none", id |-> NoId, out |-> NoOut]
IdleHub == [pc |-> "idle", out |-> NoOut]

Init ==
    /\ clients = [i \in Instances |-> __init__(i)]
    /\ heap = [r \in Instances |-> EmptyMap]
    /\ futs = [i \in Instances |-> [k \in 1..MaxCalls |-> NoFut]]
    /\ actor = 0
    /\ subs = [u \in 1..MaxSubs |-> NoSub]
    /\ wire = [c \in Conns |-> << >>]
    /\ inbox = [c \in Conns |-> << >>]
    /\ arrived = [c \in Conns |-> << >>]
    /\ handled = [c \in Conns |-> << >>]
    /\ requests = [m \in Mappings |-> IF m = 1 THEN NoId ELSE SuppliedId]
    /\ sent = [t \in Tasks |-> NoId]
    /\ markets = [k \in Markets |-> NoClient]
    /\ streams = [u \in 1..MaxSubs |-> NoStream]
    /\ hub = IdleHub
    /\ websocket = 0
    /\ running = FALSE
    /\ request_counter = 0
    /\ pending_requests = EmptyMap
    /\ calls = [t \in Tasks |-> IdleCall]
    /\ handlers = [h \in Conns |-> IdleHandler]
    /\ connState = [c \in Conns |-> "none"]
    /\ nconn = 0
    /\ disc = IdleDisc
    /\ last = Other

\* ------------------------------------------------------ future operations
set_result(cs, t, data) ==
    [cs EXCEPT ![t].fut = "result", ![t].val = data, ![t].settled = @ + 1]

set_exception(cs, t, e) ==
    [cs EXCEPT ![t].fut = "exception", ![t].exc = e, ![t].settled = @ + 1]

\* Future.cancel(), as wait_for does to the future it was waiting on
cancel_future(cs, t) ==
    [cs EXCEPT ![t].fut = "cancelled", ![t].settled = @ + 1]

\* asyncio runs ready callbacks first-in first-out: the receive-loop task
\* created at line 79 takes its first step before any task resumes from a
\* suspension that began after it was created
LoopsStarted == \A h \in Conns : handlers[h].pc # "start"

\* recv() on a closed connection is ready to raise at once, and opening a new
\* connection takes network round trips: a loop whose connection was closed
\* has run by the time a connect() called afterwards returns
LoopsWoken ==
    \A h \in Conns : handlers[h].pc = "recv" => connState[handlers[h].conn] # "closed"

\* send() on a closed connection is ready to raise at once as well: a call
\* suspended in it has run by the time a connect() called afterwards returns
SendsWoken ==
    \A t \in Tasks : calls[t].pc = "send" => connState[calls[t].conn] # "closed"

\* --------------------------------------------------------------- connect
\* callers do not connect a client that is connected: connect() is called on
\* a new client, after disconnect() has returned, or after the connection
\* was lost
MayConnect ==
    /\ disc.pc = "idle"
    /\ IF websocket = 0 THEN TRUE ELSE ~running \/ connState[websocket] = "closed"
    /\ LoopsWoken
    /\ SendsWoken

\* connect() is called on a client that is connected
Connected == websocket # 0 /\ running /\ connState[websocket] = "open"

\* websockets.connect succeeded: lines 71-79
connect ==
    /\ nconn' = nconn + 1
    /\ connState' = [connState EXCEPT ![nconn + 1] = "open"]
    /\ websocket' = nconn + 1
    /\ running' = TRUE
    /\ handlers' = [handlers EXCEPT ![nconn + 1] = [pc |-> "start", conn |-> 0]]
    /\ last' = Other
    /\ UNCHANGED <<instances, facade, extras>>
    /\ UNCHANGED <<request_counter, pending_requests, calls, disc>>

ConnectOk ==
    /\ LoopsStarted
    /\ MayConnect
    /\ nconn < MaxConnects
    /\ connect

\* a later connect() on a client that was connected before and no longer is
Reconnect ==
    /\ LoopsStarted
    /\ MayConnect
    /\ nconn >= MaxConnects
    /\ nconn < MaxConnects + MaxAgain
    /\ connect

\* connect() returns on a client that is connected: nothing in lines 55-79
\* looks at the connection or the loop already there
ConnectAgain ==
    /\ LoopsStarted
    /\ Connected
    /\ disc.pc = "idle"
    /\ nconn < MaxConnects + MaxAgain
    /\ connect

\* variant: running is set before the connection is made
ConnectFail_running_set ==
    /\ LoopsStarted
    /\ MayConnect
    /\ running' = TRUE
    /\ last' = ConnectRaised(ConnectionFailed)
    /\ UNCHANGED <<instances, facade, extras>>
    /\ UNCHANGED <<websocket, request_counter, pending_requests, calls,
                   handlers, connState, nconn, disc>>

\* the one call of websockets.connect (line 71) raised: lines 81-83 log it
\* and raise APIError; nothing was assigned and no task was created
ConnectFail ==
    /\ LoopsStarted
    /\ MayConnect
    /\ last' = ConnectRaised(ConnectionFailed)
    /\ UNCHANGED <<instances, facade, extras>>
    /\ UNCHANGED <<websocket, running, request_counter, pending_requests, calls,
                   handlers, connState, nconn, disc>>

\* ------------------------------------------------------------ disconnect
\* the ids whose send_request is suspended in wait_for on a future not done
Awaited ==
    {k \in DOMAIN pending_requests :
        calls[pending_requests[k]].pc = "wait" /\ calls[pending_requests[k]].fut = "pending"}


\* lines 85-90: running is cleared, then close() is awaited on the socket;
\* again: running was clear already, so a disconnect() has completed since
\* the last connect()
DisconnectBegin ==
    /\ disc.pc = "idle"
    /\ running' = FALSE
    /\ IF websocket # 0
       THEN /\ disc' = [pc |-> "closing", conn |-> websocket,
                        snap |-> Awaited, again |-> ~running]
            /\ connState' = [connState EXCEPT ![websocket] =
                                IF @ = "open" THEN "closing" ELSE @]
            /\ last' = Other
       ELSE /\ disc' = IdleDisc
            /\ connState' = connState
            /\ last' = Other
    /\ UNCHANGED <<instances, facade, extras>>
    /\ UNCHANGED <<websocket, request_counter, pending_requests, calls, handlers,
                   nconn>>

\* lines 90-92: close() has returned, disconnect() returns to its caller
DisconnectReturn ==
    /\ LoopsStarted
    /\ disc.pc = "closing"
    /\ connState[disc.conn] = "closed"
    /\ disc' = IdleDisc
    /\ last' = Other
    /\ UNCHANGED <<instances, facade, extras>>
    /\ UNCHANGED <<websocket, running, request_counter, pending_requests, calls,
                   handlers, connState, nconn>>

\* transport: the connection is lost (remote close, or the closing handshake
\* started by close() completes)
ConnectionLost(c) ==
    /\ LoopsStarted
    /\ connState[c] \in {"open", "closing"}
    /\ connState' = [connState EXCEPT ![c] = "closed"]
    /\ last' = Other
    /\ UNCHANGED <<instances, facade, extras>>
    /\ UNCHANGED <<websocket, running, request_counter, pending_requests, calls,
                   handlers, nconn, disc>>

\* ---------------------------------------------------------- receive loop
\* the smallest key of a non-empty table
Oldest(pend) == CHOOSE k \in DOMAIN pend : \A j \in DOMAIN pend : k <= j

\* lines 135-137: pop the entry and complete its future unless it is done
resolve(key, response_data, pend, cs) ==
    LET t == pend[key]
    IN  IF ~Done(cs[t])
        THEN [pending |-> Pop(pend, key),
              calls |-> set_result(cs, t, response_data),
              raised |-> FALSE]
        ELSE [pending |-> Pop(pend, key), calls |-> cs, raised |-> FALSE]

\* variant: a reply resolves the oldest pending entry, whatever id it carries
process_message_oldest(message, pend, cs) ==
    IF message.form = "ok" /\ message.channel = "post" /\ message.data.id \in DOMAIN pend
    THEN resolve(Oldest(pend), message.data, pend, cs)
    ELSE [pending |-> pend, calls |-> cs, raised |-> FALSE]

\* variant: a reply with an unknown id falls back to the oldest pending entry
process_message_fallback(message, pend, cs) ==
    IF message.form = "ok" /\ message.channel = "post" /\ message.data.id \in DOMAIN pend
    THEN resolve(message.data.id, message.data, pend, cs)
    ELSE IF message.form = "ok" /\ message.channel = "post" /\ DOMAIN pend # {}
         THEN resolve(Oldest(pend), message.data, pend, cs)
         ELSE [pending |-> pend, calls |-> cs, raised |-> FALSE]

\* variant: the data.id of a frame is looked up whatever its channel
process_message_any_channel(message, pend, cs) ==
    IF message.form = "ok" /\ message.data.id \in DOMAIN pend
    THEN resolve(message.data.id, message.data, pend, cs)
    ELSE [pending |-> pend, calls |-> cs, raised |-> FALSE]

\* _process_message, lines 116-181: the new table and futures; raised is
\* whether an exception leaves the method
_process_message(message, pend, cs) ==
    IF message.form # "ok"
    THEN \* json.loads, a .get or the table lookup raises: lines 178-181 log it
         [pending |-> pend, calls |-> cs, raised |-> FALSE]
    ELSE IF message.channel = "post"
    THEN LET response_data == message.data
             request_id == response_data.id
         IN  IF request_id \in DOMAIN pend
             THEN resolve(request_id, response_data, pend, cs)
             ELSE [pending |-> pend, calls |-> cs, raised |-> FALSE]
    ELSE [pending |-> pend, calls |-> cs, raised |-> FALSE]

\* variant: the finally block only clears the table
cleanup_clear_only(pend, cs) == cs

\* the finally block of _message_handler, lines 109-114
cleanup(pend, cs) ==
    [t \in Tasks |->
        IF (\E k \in DOMAIN pend : pend[k] = t) /\ ~Done(cs[t])
        THEN set_exception(cs, t, ConnectionClosedExc)[t]
        ELSE cs[t]]

\* the while condition of line 97, then either the next recv() or the
\* finally block
LoopOrExit(h, pend, cs) ==
    IF running /\ websocket # 0
    THEN /\ handlers' = [handlers EXCEPT ![h] = [pc |-> "recv", conn |-> websocket]]
         /\ pending_requests' = pend
         /\ calls' = cs
    ELSE /\ handlers' = [handlers EXCEPT ![h] = [pc |-> "exited", conn |-> 0]]
         /\ pending_requests' = EmptyMap
         /\ calls' = cleanup(pend, cs)

\* the task created at line 79 runs for the first time
HandlerStart(h) ==
    /\ handlers[h].pc = "start"
    /\ LoopOrExit(h, pending_requests, calls)
    /\ last' = Other
    /\ UNCHANGED <<instances, facade, extras>>
    /\ UNCHANGED <<websocket, running, request_counter, connState, nconn, disc>>

\* a frame that is a JSON object of the documented shape
WellFormed(message) == message.form = "ok" /\ message.data.rtype # "notobject"

\* history: what the loop has just handled
Handled(message) ==
    IF ~WellFormed(message) THEN Malformed(message.data.id)
    ELSE IF message.channel = "post" THEN Received(message.data.id)
    ELSE [op |-> message.channel, id |-> NoId, exc |-> NoExc]

\* recv() has returned message: line 100 handles it, then back to line 97
handle(h, message) ==
    /\ handlers[h].pc = "recv"
    /\ connState[handlers[h].conn] \in {"open", "closing"}
    /\ LET r == _process_message(message, pending_requests, calls)
       IN  /\ ~r.raised
           /\ LoopOrExit(h, r.pending, r.calls)
    /\ last' = Handled(message)
    /\ UNCHANGED <<instances, facade>>
    /\ UNCHANGED <<websocket, running, request_counter, connState, nconn, disc>>

\* recv() returns a frame that has just arrived: lines 99-100
HandlerMessage(h, message) ==
    /\ handle(h, message)
    /\ UNCHANGED extras

\* transport: a frame arrives on connection c while the loop is busy or has
\* not been scheduled yet, and is queued behind the frames already there
Arrive(c, message) ==
    /\ LoopsStarted
    /\ connState[c] = "open"
    /\ Len(arrived[c]) < MaxFrames
    /\ inbox' = [inbox EXCEPT ![c] = Append(@, message)]
    /\ arrived' = [arrived EXCEPT ![c] = Append(@, message)]
    /\ last' = Other
    /\ UNCHANGED <<websocket, running, request_counter, pending_requests, calls,
                   handlers, connState, nconn, disc>>
    /\ UNCHANGED <<instances, facade, handled, mappings, composite>>

\* a sequence without its i-th element
Without(q, i) == SubSeq(q, 1, i - 1) \o SubSeq(q, i + 1, Len(q))

\* variant: recv() returns the frame that arrived last
recv_newest(q) == Len(q)

\* recv(), line 99: the position in the queue of the frame it returns, the
\* one that arrived first
recv(q) == 1

\* recv() returns a queued frame and line 100 handles it to the end before
\* the loop calls recv() again: _process_message contains no await
HandlerQueued(h) ==
    /\ handlers[h].pc = "recv"
    /\ inbox[handlers[h].conn] # << >>
    /\ LET c == handlers[h].conn
           i == recv(inbox[c])
       IN  /\ handle(h, inbox[c][i])
           /\ inbox' = [inbox EXCEPT ![c] = Without(@, i)]
           /\ handled' = [handled EXCEPT ![c] = Append(@, inbox[c][i])]
           /\ arrived' = arrived
    /\ UNCHANGED <<mappings, composite>>

\* variant: the loop ends on ConnectionClosed without the finally block
HandlerClosed_no_cleanup(h) ==
    /\ handlers[h].pc = "recv"
    /\ connState[handlers[h].conn] = "closed"
    /\ handlers' = [handlers EXCEPT ![h] = [pc |-> "exited", conn |-> 0]]
    /\ pending_requests' = pending_requests
    /\ calls' = calls
    /\ last' = Other
    /\ UNCHANGED <<instances, facade, extras>>
    /\ UNCHANGED <<websocket, running, request_counter, connState, nconn, disc>>

\* recv() raises ConnectionClosed: lines 101-103, then the finally block
HandlerClosed(h) ==
    /\ handlers[h].pc = "recv"
    /\ connState[handlers[h].conn] = "closed"
    /\ handlers' = [handlers EXCEPT ![h] = [pc |-> "exited", conn |-> 0]]
    /\ pending_requests' = EmptyMap
    /\ calls' = cleanup(pending_requests, calls)
    /\ last' = Other
    /\ UNCHANGED <<instances, facade, extras>>
    /\ UNCHANGED <<websocket, running, request_counter, connState, nconn, disc>>

\* ----------------------------------------------------------- send_request
\* caller tasks are interchangeable: task t starts after task t-1
MayStart(t) == calls[t].pc = "idle" /\ (IF t = 1 THEN TRUE ELSE calls[t - 1].pc # "idle")

\* variant: the incremented counter is not stored
SendRequest_counter_not_stored(t) ==
    /\ MayStart(t)
    /\ IF websocket = 0 \/ ~running
       THEN /\ calls' = [calls EXCEPT ![t].pc = "done", ![t].out = Raise(NotConnected)]
            /\ UNCHANGED <<request_counter, pending_requests>>
       ELSE LET request_id == request_counter + 1
            IN  /\ request_counter' = request_counter
                /\ pending_requests' = Put(pending_requests, request_id, t)
                /\ calls' = [calls EXCEPT ![t].pc = "send", ![t].id = request_id,
                                          ![t].conn = websocket, ![t].fut = "pending"]
    /\ last' = Other
    /\ UNCHANGED <<instances, facade, extras>>
    /\ UNCHANGED <<websocket, running, handlers, connState, nconn, disc>>

\* variant: the future is created but not put in the table before the send
SendRequest_not_inserted(t) ==
    /\ MayStart(t)
    /\ IF websocket = 0 \/ ~running
       THEN /\ calls' = [calls EXCEPT ![t].pc = "done", ![t].out = Raise(NotConnected)]
            /\ UNCHANGED <<request_counter, pending_requests>>
       ELSE LET request_id == request_counter + 1
            IN  /\ request_counter' = request_id
                /\ pending_requests' = pending_requests
                /\ calls' = [calls EXCEPT ![t].pc = "send", ![t].id = request_id,
                                          ![t].conn = websocket, ![t].fut = "pending"]
    /\ last' = Other
    /\ UNCHANGED <<instances, facade, extras>>
    /\ UNCHANGED <<websocket, running, handlers, connState, nconn, disc>>

\* lines 194-211: up to the await of websocket.send
SendRequest(t) ==
    /\ MayStart(t)
    /\ IF websocket = 0 \/ ~running
       THEN /\ calls' = [calls EXCEPT ![t].pc = "done", ![t].out = Raise(NotConnected)]
            /\ UNCHANGED <<request_counter, pending_requests>>
       ELSE LET request_id == request_counter + 1
            IN  /\ request_counter' = request_id
                /\ pending_requests' = Put(pending_requests, request_id, t)
                /\ calls' = [calls EXCEPT ![t].pc = "send", ![t].id = request_id,
                                          ![t].conn = websocket, ![t].fut = "pending"]
    /\ last' = Other
    /\ UNCHANGED <<instances, facade, extras>>
    /\ UNCHANGED <<websocket, running, handlers, connState, nconn, disc>>

\* send_request(request) with the mapping the caller passes, lines 194-211
\* up to the await of websocket.send: line 202 writes the id into the
\* caller's mapping only if the mapping has no "id" key, and line 211
\* serializes the mapping as it then is
SendMapping(t, m) ==
    /\ MayStart(t)
    /\ IF websocket = 0 \/ ~running
       THEN /\ calls' = [calls EXCEPT ![t].pc = "done", ![t].out = Raise(NotConnected)]
            /\ UNCHANGED <<request_counter, pending_requests, requests, sent>>
       ELSE LET request_id == request_counter + 1
                request == IF requests[m] = NoId THEN request_id ELSE requests[m]
            IN  /\ request_counter' = request_id
                /\ requests' = [requests EXCEPT ![m] = request]
                /\ pending_requests' = Put(pending_requests, request_id, t)
                /\ calls' = [calls EXCEPT ![t].pc = "send", ![t].id = request_id,
                                          ![t].conn = websocket, ![t].fut = "pending"]
                /\ sent' = [sent EXCEPT ![t] = request]
    /\ last' = Other
    /\ UNCHANGED <<instances, facade, queues, composite>>
    /\ UNCHANGED <<websocket, running, handlers, connState, nconn, disc>>

\* websocket.send returned: lines 211-215, up to the await of wait_for
SendOk(t) ==
    /\ LoopsStarted
    /\ calls[t].pc = "send"
    /\ connState[calls[t].conn] = "open"
    /\ calls' = [calls EXCEPT ![t].pc = "wait", ![t].conn = 0]
    /\ last' = Other
    /\ UNCHANGED <<instances, facade, extras>>
    /\ UNCHANGED <<websocket, running, request_counter, pending_requests, handlers,
                   connState, nconn, disc>>

\* variant: the exception of the send is raised without the pop of line 228
SendFail_keeps_entry(t) ==
    /\ LoopsStarted
    /\ calls[t].pc = "send"
    /\ connState[calls[t].conn] # "open"
    /\ pending_requests' = pending_requests
    /\ calls' = [calls EXCEPT ![t].pc = "done", ![t].conn = 0,
                              ![t].out = Raise(TransportClosed)]
    /\ last' = Other
    /\ UNCHANGED <<instances, facade, extras>>
    /\ UNCHANGED <<websocket, running, request_counter, handlers, connState, nconn,
                   disc>>

\* websocket.send raised: lines 227-229
SendFail(t) ==
    /\ LoopsStarted
    /\ calls[t].pc = "send"
    /\ connState[calls[t].conn] # "open"
    /\ pending_requests' = Pop(pending_requests, calls[t].id)
    /\ calls' = [calls EXCEPT ![t].pc = "done", ![t].conn = 0,
                              ![t].out = Raise(TransportClosed)]
    /\ last' = Other
    /\ UNCHANGED <<instances, facade, extras>>
    /\ UNCHANGED <<websocket, running, request_counter, handlers, connState, nconn,
                   disc>>

\* HyperLiquidClient.send_ws_info_request / send_ws_exchange_request:
\* response.get("response", {}).get("payload", {})
send_ws_info_request(response) ==
    IF response.payload = Absent THEN "{}" ELSE response.payload

\* variant: the response type is not inspected
check_response_unchecked(response) ==
    [kind |-> "return", value |-> response, exc |-> NoExc,
     facade |-> send_ws_info_request(response)]

\* lines 217-222: what send_request does with the response it waited for
check_response(response) ==
    IF response.rtype = "notobject"
    THEN \* response.get("response", {}) is not a mapping: .get raises
         Raise(AttributeErrorExc)
    ELSE IF response.rtype = "error"
    THEN Raise(ApiErrorExc(IF response.payload = Absent THEN "Unknown error"
                                                        ELSE response.payload))
    ELSE [kind |-> "return", value |-> response, exc |-> NoExc,
          facade |-> send_ws_info_request(response)]

\* wait_for returned the future's result or raised its exception: lines 215-229
\* (an exception raised inside the try block runs the pop of line 228)
Resume(t) ==
    /\ LoopsStarted
    /\ calls[t].pc = "wait"
    /\ calls[t].fut \in {"result", "exception"}
    /\ LET out == IF calls[t].fut = "result" THEN check_response(calls[t].val)
                                             ELSE Raise(calls[t].exc)
       IN  /\ calls' = [calls EXCEPT ![t].pc = "done", ![t].out = out]
           /\ pending_requests' = IF out.kind = "raise"
                                   THEN Pop(pending_requests, calls[t].id)
                                   ELSE pending_requests
    /\ last' = Other
    /\ UNCHANGED <<instances, facade, extras>>
    /\ UNCHANGED <<websocket, running, request_counter, handlers, connState, nconn,
                   disc>>

\* variant: the timeout path leaves the entry in the table
Timeout_keeps_entry(t) ==
    /\ LoopsStarted
    /\ calls[t].pc = "wait"
    /\ calls[t].fut = "pending"
    /\ calls' = cancel_future([calls EXCEPT ![t].pc = "done",
                                             ![t].out = Raise(TimedOut(calls[t].id))], t)
    /\ last' = TimedOutStep(t)
    /\ UNCHANGED <<instances, facade, extras>>
    /\ UNCHANGED <<websocket, running, request_counter, pending_requests, handlers,
                   connState, nconn, disc>>

\* variant: the timeout path clears the whole table
Timeout_clears_table(t) ==
    /\ LoopsStarted
    /\ calls[t].pc = "wait"
    /\ calls[t].fut = "pending"
    /\ pending_requests' = EmptyMap
    /\ calls' = cancel_future([calls EXCEPT ![t].pc = "done",
                                             ![t].out = Raise(TimedOut(calls[t].id))], t)
    /\ last' = TimedOutStep(t)
    /\ UNCHANGED <<instances, facade, extras>>
    /\ UNCHANGED <<websocket, running, request_counter, handlers,
                   connState, nconn, disc>>

\* wait_for timed out while the future was not done: it cancels the future
\* and raises TimeoutError, lines 224-226
Timeout(t) ==
    /\ LoopsStarted
    /\ calls[t].pc = "wait"
    /\ calls[t].fut = "pending"
    /\ pending_requests' = Pop(pending_requests, calls[t].id)
    /\ calls' = cancel_future([calls EXCEPT ![t].pc = "done",
                                             ![t].out = Raise(TimedOut(calls[t].id))], t)
    /\ last' = TimedOutStep(t)
    /\ UNCHANGED <<instances, facade, extras>>
    /\ UNCHANGED <<websocket, running, request_counter, handlers, connState, nconn,
                   disc>>

\* the caller's task is cancelled from outside while suspended in
\* send_request: CancelledError is a BaseException, so neither except clause
\* of lines 224-229 runs (a send on a closed connection raises at once and
\* is not a point at which the task is suspended)
Cancel(t) ==
    /\ LoopsStarted
    /\ \/ calls[t].pc = "send" /\ connState[calls[t].conn] # "closed"
       \/ calls[t].pc = "wait" /\ calls[t].fut = "pending"
    /\ LET cs == [calls EXCEPT ![t].pc = "done", ![t].conn = 0,
                                ![t].out = Raise(Cancelled)]
       IN  calls' = IF calls[t].pc = "wait" THEN cancel_future(cs, t) ELSE cs
    /\ last' = Other
    /\ UNCHANGED <<instances, facade, extras>>
    /\ UNCHANGED <<websocket, running, request_counter, pending_requests, handlers,
                   connState, nconn, disc>>

\* ------------------------------------------- subscribe and unsubscribe
\* the control frame of lines 392-400 / 418-426; call tells the frames of
\* different calls apart
ControlFrame(u) ==
    [method |-> subs[u].method, subscription |-> subs[u].subscription, call |-> u]

\* variant: the call is numbered like a request: it takes a request id
SubBegin_correlated(u, method, subscription) ==
    /\ subs[u].pc = "idle"
    /\ IF u = 1 THEN TRUE ELSE subs[u - 1].pc # "idle"
    /\ IF websocket = 0
       THEN /\ subs' = [subs EXCEPT ![u].pc = "done", ![u].method = method,
                                    ![u].subscription = subscription,
                                    ![u].out = Raise(NotConnected)]
            /\ UNCHANGED <<request_counter, pending_requests>>
       ELSE /\ subs' = [subs EXCEPT ![u].pc = "send", ![u].method = method,
                                    ![u].subscription = subscription,
                                    ![u].conn = websocket]
            /\ request_counter' = request_counter + 1
            /\ pending_requests' = pending_requests
    /\ last' = Other
    /\ UNCHANGED <<websocket, running, calls, handlers, connState, nconn, disc, wire>>
    /\ UNCHANGED <<instances, extras>>

\* subscribe_to_channel / unsubscribe_from_channel up to the await of
\* websocket.send: client.py lines 388-402 / 414-428
SubBegin(u, method, subscription) ==
    /\ subs[u].pc = "idle"
    /\ IF u = 1 THEN TRUE ELSE subs[u - 1].pc # "idle"
    /\ IF websocket = 0
       THEN subs' = [subs EXCEPT ![u].pc = "done", ![u].method = method,
                                 ![u].subscription = subscription,
                                 ![u].out = Raise(NotConnected)]
       ELSE subs' = [subs EXCEPT ![u].pc = "send", ![u].method = method,
                                 ![u].subscription = subscription,
                                 ![u].conn = websocket]
    /\ last' = Other
    /\ UNCHANGED <<websocket, running, request_counter, pending_requests, calls,
                   handlers, connState, nconn, disc, wire>>
    /\ UNCHANGED <<instances, extras>>

\* websocket.send returned: the frame is on the wire and the call returns
\* None, lines 402-403 / 428-429
SubSent(u) ==
    /\ LoopsStarted
    /\ subs[u].pc = "send"
    /\ connState[subs[u].conn] = "open"
    /\ wire' = [wire EXCEPT ![subs[u].conn] = Append(@, ControlFrame(u))]
    /\ subs' = [subs EXCEPT ![u].pc = "done", ![u].conn = 0, ![u].out = ReturnNone]
    /\ last' = Other
    /\ UNCHANGED <<websocket, running, request_counter, pending_requests, calls,
                   handlers, connState, nconn, disc>>
    /\ UNCHANGED <<instances, extras>>

\* websocket.send raised ConnectionClosed, which the call lets through
SubFail(u) ==
    /\ LoopsStarted
    /\ subs[u].pc = "send"
    /\ connState[subs[u].conn] # "open"
    /\ subs' = [subs EXCEPT ![u].pc = "done", ![u].conn = 0,
                            ![u].out = Raise(TransportClosed)]
    /\ last' = Other
    /\ UNCHANGED <<websocket, running, request_counter, pending_requests, calls,
                   handlers, connState, nconn, disc, wire>>
    /\ UNCHANGED <<instances, extras>>

\* ------------------------------------------------- several client objects
\* the dict that object i's pending_requests attribute refers to
Table(i) == heap[clients[i].pending_requests]

\* connect() of object i, lines 71-79
InstConnect(i) ==
    /\ clients[i].websocket = 0
    /\ clients' = [clients EXCEPT ![i].websocket = 1, ![i].running = TRUE,
                                  ![i].open = TRUE, ![i].loop = "running"]
    /\ actor' = i
    /\ UNCHANGED <<heap, futs, session, facade, extras>>

\* send_request of object i up to its first await, lines 194-211
InstSend(i) ==
    /\ clients[i].websocket # 0 /\ clients[i].running
    /\ clients[i].request_counter < MaxCalls
    /\ LET request_id == clients[i].request_counter + 1
           ref == clients[i].pending_requests
       IN  /\ clients' = [clients EXCEPT ![i].request_counter = request_id]
           /\ heap' = [heap EXCEPT ![ref] = Put(@, request_id, i)]
           /\ futs' = [futs EXCEPT ![i][request_id] = [state |-> "pending", by |-> 0]]
    /\ actor' = i
    /\ UNCHANGED <<session, facade, extras>>

\* the loop of object i handles a reply frame with data.id = k, lines 134-139
InstReply(i, k) ==
    /\ clients[i].loop = "running" /\ clients[i].open
    /\ LET ref == clients[i].pending_requests
       IN  IF k \in DOMAIN heap[ref]
           THEN LET owner == heap[ref][k]
                IN  /\ heap' = [heap EXCEPT ![ref] = Pop(@, k)]
                    /\ futs' = IF futs[owner][k].state = "pending"
                               THEN [futs EXCEPT ![owner][k] = [state |-> "result", by |-> i]]
                               ELSE futs
           ELSE UNCHANGED <<heap, futs>>
    /\ actor' = i
    /\ UNCHANGED <<clients, session, facade, extras>>

\* the wait_for of object i's request k times out, lines 224-226
InstTimeout(i, k) ==
    /\ futs[i][k].state = "pending"
    /\ heap' = [heap EXCEPT ![clients[i].pending_requests] = Pop(@, k)]
    /\ futs' = [futs EXCEPT ![i][k] = [state |-> "cancelled", by |-> i]]
    /\ actor' = i
    /\ UNCHANGED <<clients, session, facade, extras>>

\* disconnect() of object i, lines 85-92
InstDisconnect(i) ==
    /\ clients[i].websocket # 0 /\ clients[i].running
    /\ clients' = [clients EXCEPT ![i].running = FALSE, ![i].open = FALSE]
    /\ actor' = i
    /\ UNCHANGED <<heap, futs, session, facade, extras>>

\* the remote end closes the connection of object i
InstLost(i) ==
    /\ clients[i].open
    /\ clients' = [clients EXCEPT ![i].open = FALSE]
    /\ actor' = i
    /\ UNCHANGED <<heap, futs, session, facade, extras>>

\* the loop of object i finds its connection closed and runs its finally
\* block, lines 101-114
InstLoopExit(i) ==
    /\ clients[i].loop = "running" /\ ~clients[i].open
    /\ LET ref == clients[i].pending_requests
       IN  /\ futs' = [j \in Instances |-> [k \in 1..MaxCalls |->
                         IF k \in DOMAIN heap[ref] /\ heap[ref][k] = j /\
                            futs[j][k].state = "pending"
                         THEN [state |-> "exception", by |-> i]
                         ELSE futs[j][k]]]
           /\ heap' = [heap EXCEPT ![ref] = EmptyMap]
    /\ clients' = [clients EXCEPT ![i].loop = "exited"]
    /\ actor' = i
    /\ UNCHANGED <<session, facade, extras>>

\* ------------------------------------------------ AsterDexClient streams
\* self._next_subscription_id: 1 at first (line 58), one more for every frame
\* built (lines 243-245, 283-285)
_next_subscription_id == 1 + Cardinality({u \in 1..MaxSubs : streams[u].id # NoId})

\* subscribe_perp_streams / subscribe_spot_streams up to their first await,
\* asterdex/client.py lines 236-247 / 276-287: with no client object the call
\* goes into connect_*_ws, which assigns a new WebSocketClient to the
\* attribute (lines 89, 96) and then awaits its connect(); with a client
\* object it builds the frame and reads client.websocket.send (the API key
\* that _require_api_key asks for is configured)
StreamBegin(u, k) ==
    /\ streams[u].pc = "idle"
    /\ IF u = 1 THEN TRUE ELSE streams[u - 1].pc # "idle"
    /\ IF ~markets[k].client
       THEN /\ markets' = [markets EXCEPT ![k].client = TRUE]
            /\ streams' = [streams EXCEPT ![u] = [pc |-> "connect", market |-> k,
                                                  id |-> NoId, out |-> NoOut]]
       ELSE /\ markets' = markets
            /\ streams' = [streams EXCEPT ![u] =
                  IF markets[k].websocket
                  THEN [pc |-> "send", market |-> k, id |-> _next_subscription_id,
                        out |-> NoOut]
                  ELSE [pc |-> "done", market |-> k, id |-> _next_subscription_id,
                        out |-> Raise(NoneTypeError)]]
    /\ UNCHANGED <<session, instances, facade, queues, mappings, hub>>

\* the connect() awaited by connect_*_ws returns (lines 90, 97): the socket
\* is set and the call goes on to build its frame and await the send
StreamConnected(u) ==
    /\ streams[u].pc = "connect"
    /\ LET k == streams[u].market
       IN  markets' = [markets EXCEPT ![k].websocket = TRUE, ![k].running = TRUE,
                                      ![k].open = TRUE, ![k].opened = @ + 1]
    /\ streams' = [streams EXCEPT ![u].pc = "send", ![u].id = _next_subscription_id]
    /\ UNCHANGED <<session, instances, facade, queues, mappings, hub>>

\* the connect() awaited by connect_*_ws raises: the attribute keeps the
\* client object that never connected
StreamConnectFail(u) ==
    /\ streams[u].pc = "connect"
    /\ streams' = [streams EXCEPT ![u].pc = "done", ![u].out = Raise(ConnectionFailed)]
    /\ UNCHANGED <<session, instances, facade, queues, mappings, hub, markets>>

\* websocket.send returns (lines 247, 287): the SUBSCRIBE frame is sent
StreamSent(u) ==
    /\ streams[u].pc = "send"
    /\ markets[streams[u].market].open
    /\ streams' = [streams EXCEPT ![u].pc = "done", ![u].out = ReturnNone]
    /\ UNCHANGED <<session, instances, facade, queues, mappings, hub, markets>>

\* websocket.send raises on a connection that is closed
StreamSendFail(u) ==
    /\ streams[u].pc = "send"
    /\ ~markets[streams[u].market].open
    /\ streams' = [streams EXCEPT ![u].pc = "done", ![u].out = Raise(TransportClosed)]
    /\ UNCHANGED <<session, instances, facade, queues, mappings, hub, markets>>

\* disconnect_ws, lines 99-104: disconnect() of each client object there is;
\* the attributes keep their objects
disconnect_ws ==
    /\ \E k \in Markets : markets[k].client
    /\ markets' = [k \in Markets |->
                     IF markets[k].client
                     THEN [markets[k] EXCEPT !.running = FALSE, !.open = FALSE]
                     ELSE markets[k]]
    /\ UNCHANGED <<session, instances, facade, queues, mappings, hub, streams>>

\* ------------------------------------------------ HyperETHClient.connect
\* connect() of object i has succeeded: websocket_client.py lines 71-79
connected(cl, i) ==
    [cl EXCEPT ![i].websocket = 1, ![i].running = TRUE, ![i].open = TRUE,
               ![i].loop = "running"]

\* api.py line 99 (also through __aenter__, line 90): connect() starts and
\* awaits the connect() of its own WebSocketClient, object 1
HubConnect ==
    /\ hub.pc = "idle"
    /\ hub' = [hub EXCEPT !.pc = "main"]
    /\ actor' = 0
    /\ UNCHANGED <<clients, heap, futs>>
    /\ UNCHANGED <<session, facade, queues, mappings, markets, streams>>

\* the step of connect() awaited at pc step succeeds: line 99 connects
\* object 1, line 101 (HyperLiquidClient.connect, client.py 104-106) connects
\* object 2, line 103 fetches the metadata over HTTP and connect() returns
HubStepOk ==
    /\ hub.pc \in {"main", "hl", "meta"}
    /\ clients' = IF hub.pc = "main" THEN connected(clients, 1)
                  ELSE IF hub.pc = "hl" THEN connected(clients, 2)
                  ELSE clients
    /\ hub' = IF hub.pc = "main" THEN [hub EXCEPT !.pc = "hl"]
              ELSE IF hub.pc = "hl" THEN [hub EXCEPT !.pc = "meta"]
              ELSE [pc |-> "done", out |-> ReturnNone]
    /\ actor' = IF hub.pc = "main" THEN 1 ELSE IF hub.pc = "hl" THEN 2 ELSE 0
    /\ UNCHANGED <<heap, futs>>
    /\ UNCHANGED <<session, facade, queues, mappings, markets, streams>>

\* the step of connect() awaited at pc step raises: nothing in connect() or
\* __aenter__ catches it, and __aexit__ does not run for a failed __aenter__
HubStepFail ==
    /\ hub.pc \in {"main", "hl", "meta"}
    /\ hub' = [pc |-> "done",
               out |-> Raise(IF hub.pc = "meta" THEN MetaFailed ELSE ConnectionFailed)]
    /\ actor' = 0
    /\ UNCHANGED <<clients, heap, futs>>
    /\ UNCHANGED <<session, facade, queues, mappings, markets, streams>>

\* ---------------------------------------------------------- specification
Next ==
    \/ ConnectOk
    \/ ConnectFail
    \/ DisconnectBegin
    \/ DisconnectReturn
    \/ \E c \in Conns : ConnectionLost(c)
    \/ \E h \in Conns : HandlerStart(h)
    \/ \E h \in Conns, m \in Frames : HandlerMessage(h, m)
    \/ \E h \in Conns : HandlerClosed(h)
    \/ \E t \in Tasks : SendRequest(t)
    \/ \E t \in Tasks : SendOk(t)
    \/ \E t \in Tasks : SendFail(t)
    \/ \E t \in Tasks : Resume(t)
    \/ \E t \in Tasks : Timeout(t)
    \/ \E t \in Tasks : Cancel(t)

Spec == Init /\ [][Next]_vars

\* one connection at a time whose peer may send any frame
NextFrames ==
    \/ ConnectOk
    \/ \E c \in Conns : ConnectionLost(c)
    \/ \E h \in Conns : HandlerStart(h)
    \/ \E h \in Conns, m \in WireFrames : HandlerMessage(h, m)
    \/ \E h \in Conns : HandlerClosed(h)
    \/ \E t \in Tasks : SendRequest(t)
    \/ \E t \in Tasks : SendOk(t)
    \/ \E t \in Tasks : SendFail(t)
    \/ \E t \in Tasks : Resume(t)
    \/ \E t \in Tasks : Timeout(t)

SpecFrames == Init /\ [][NextFrames]_vars

\* any sequence of connect() and disconnect() calls, connect() on a connected
\* client included
NextLifecycle ==
    \/ ConnectOk
    \/ ConnectAgain
    \/ ConnectFail
    \/ DisconnectBegin
    \/ DisconnectReturn
    \/ \E c \in Conns : ConnectionLost(c)
    \/ \E h \in Conns : HandlerStart(h)
    \/ \E h \in Conns, m \in Frames : HandlerMessage(h, m)
    \/ \E h \in Conns : HandlerClosed(h)
    \/ \E t \in Tasks : SendRequest(t)
    \/ \E t \in Tasks : SendOk(t)
    \/ \E t \in Tasks : SendFail(t)
    \/ \E t \in Tasks : Resume(t)

SpecLifecycle == Init /\ [][NextLifecycle]_vars

\* the acknowledgment frames of subscribe and unsubscribe
AckFrames == {m \in WireFrames : m.form = "ok" /\ m.channel = "subscriptionResponse"}

\* subscriptions next to pending requests
NextSubs ==
    \/ ConnectOk
    \/ \E c \in Conns : ConnectionLost(c)
    \/ \E h \in Conns : HandlerStart(h)
    \/ \E h \in Conns, m \in AckFrames : HandlerMessage(h, m)
    \/ \E h \in Conns : HandlerClosed(h)
    \/ \E t \in Tasks : SendRequest(t)
    \/ \E t \in Tasks : SendOk(t)
    \/ \E u \in 1..MaxSubs, method \in Methods, subscription \in Subscriptions :
          SubBegin(u, method, subscription)
    \/ \E u \in 1..MaxSubs : SubSent(u)
    \/ \E u \in 1..MaxSubs : SubFail(u)

SpecSubs == Init /\ [][NextSubs]_vars

\* requests next to pushes, acknowledgments and frames without a channel
NextPush ==
    \/ ConnectOk
    \/ \E c \in Conns : ConnectionLost(c)
    \/ \E h \in Conns : HandlerStart(h)
    \/ \E h \in Conns, m \in PushFrames : HandlerMessage(h, m)
    \/ \E h \in Conns : HandlerClosed(h)
    \/ \E t \in Tasks : SendRequest(t)
    \/ \E t \in Tasks : SendOk(t)
    \/ \E t \in Tasks : SendFail(t)
    \/ \E t \in Tasks : Timeout(t)

SpecPush == Init /\ [][NextPush]_vars

\* the replies that queue up on a connection: one per request id
QueuedFrames ==
    {m \in Frames : m.data.id # NoId /\ m.data.rtype = "info" /\ m.data.payload = "ETH:3000"}

\* replies arrive faster than the loop is scheduled
NextQueue ==
    \/ ConnectOk
    \/ \E h \in Conns : HandlerStart(h)
    \/ \E c \in Conns, m \in QueuedFrames : Arrive(c, m)
    \/ \E h \in Conns : HandlerQueued(h)
    \/ \E t \in Tasks : SendRequest(t)
    \/ \E t \in Tasks : SendOk(t)
    \/ \E t \in Tasks : Resume(t)
    \/ \E t \in Tasks : Timeout(t)

SpecQueue == Init /\ [][NextQueue]_vars

\* callers pass their own request mappings
NextEnvelope ==
    \/ ConnectOk
    \/ \E h \in Conns : HandlerStart(h)
    \/ \E h \in Conns, m \in Frames : HandlerMessage(h, m)
    \/ \E t \in Tasks, m \in Mappings : SendMapping(t, m)
    \/ \E t \in Tasks : SendOk(t)
    \/ \E t \in Tasks : Resume(t)
    \/ \E t \in Tasks : Timeout(t)

SpecEnvelope == Init /\ [][NextEnvelope]_vars

\* a client that is connected, disconnected and connected again
NextReconnect ==
    \/ ConnectOk
    \/ Reconnect
    \/ DisconnectBegin
    \/ DisconnectReturn
    \/ \E c \in Conns : ConnectionLost(c)
    \/ \E h \in Conns : HandlerStart(h)
    \/ \E h \in Conns, m \in QueuedFrames : HandlerMessage(h, m)
    \/ \E h \in Conns : HandlerClosed(h)
    \/ \E t \in Tasks : SendRequest(t)
    \/ \E t \in Tasks : SendOk(t)
    \/ \E t \in Tasks : SendFail(t)
    \/ \E t \in Tasks : Resume(t)
    \/ \E t \in Tasks : Timeout(t)
    \/ \E t \in Tasks : Cancel(t)

SpecReconnect == Init /\ [][NextReconnect]_vars

\* the lazily connected stream clients of AsterDexClient
NextStreams ==
    \/ \E u \in 1..MaxSubs, k \in Markets : StreamBegin(u, k)
    \/ \E u \in 1..MaxSubs : StreamConnected(u)
    \/ \E u \in 1..MaxSubs : StreamConnectFail(u)
    \/ \E u \in 1..MaxSubs : StreamSent(u)
    \/ \E u \in 1..MaxSubs : StreamSendFail(u)
    \/ disconnect_ws

SpecStreams == Init /\ [][NextStreams]_vars

\* HyperETHClient.connect() and the two WebSocketClient objects it connects
NextHub ==
    \/ HubConnect
    \/ HubStepOk
    \/ HubStepFail
    \/ \E i \in Instances : InstSend(i)
    \/ \E i \in Instances, k \in 1..MaxCalls : InstReply(i, k)
    \/ \E i \in Instances, k \in 1..MaxCalls : InstTimeout(i, k)
    \/ \E i \in Instances : InstLost(i)
    \/ \E i \in Instances : InstLoopExit(i)

SpecHub == Init /\ [][NextHub]_vars

\* two client objects used side by side
NextInstances ==
    \/ \E i \in Instances : InstConnect(i)
    \/ \E i \in Instances : InstSend(i)
    \/ \E i \in Instances, k \in 1..MaxCalls : InstReply(i, k)
    \/ \E i \in Instances, k \in 1..MaxCalls : InstTimeout(i, k)
    \/ \E i \in Instances : InstDisconnect(i)
    \/ \E i \in Instances : InstLost(i)
    \/ \E i \in Instances : InstLoopExit(i)

SpecInstances == Init /\ [][NextInstances]_vars

\* ================================================================ claims
Settled(c) == c.fut \in {"result", "exception", "cancelled"}
InTable(t) == \E k \in DOMAIN pending_requests : pending_requests[k] = t
SameLoops == \A h \in Conns : handlers'[h].pc = handlers[h].pc

\* a step of the receive loop that drops its frame: no caller is resolved,
\* the counter keeps its value, the loop goes on unless running was cleared,
\* and with the loop going on the table and every call are as before
FrameDropped ==
    /\ request_counter' = request_counter
    /\ \A t \in Tasks : calls'[t].fut = "result" => calls[t].fut = "result"
    /\ (running /\ websocket # 0) => SameLoops
    /\ SameLoops => pending_requests' = pending_requests /\ calls' = calls

\* C1: a call is only ever resolved with, and only ever returns, the reply
\* whose data.id is the id assigned to that call, whatever the order in
\* which the replies of concurrently pending calls arrive
C1_OwnReply ==
    \A t \in Tasks :
        /\ calls[t].fut = "result" => calls[t].val.id = calls[t].id
        /\ calls[t].out.kind = "return" =>
              calls[t].out.value = calls[t].val /\ calls[t].out.value.id = calls[t].id

\* calls 1 and 2 were pending together and the replies came permuted: call 2
\* has returned the reply for id 2, and the reply for id 1, handled just now,
\* has resolved call 1
C1_Witness ==
    /\ calls[2].id = 2 /\ calls[2].out.kind = "return"
    /\ last = Received(1)
    /\ calls[1].id = 1 /\ calls[1].pc = "wait" /\ calls[1].fut = "result"

\* C2 (as stated): disconnect() called while K requests are awaited fails
\* each of them (unless a reply or its timeout came first) with a
\* ConnectionClosedError and leaves none of them in the table
C2_Original ==
    [][(disc.pc = "closing" /\ disc'.pc = "idle") =>
          \A k \in disc.snap : \A t \in Tasks :
              calls[t].id = k =>
                 /\ k \notin DOMAIN pending_requests'
                 /\ calls'[t].fut \in {"result", "cancelled"}
                       \/ (calls'[t].fut = "exception" /\
                             calls'[t].exc.type = "ConnectionClosedError")]_vars

\* C3 (as stated): in the state in which disconnect() returns, the table is
\* empty and no future is unresolved
C3_Original ==
    [][(disc.pc = "closing" /\ disc'.pc = "idle") =>
          /\ disc.snap # {} => pending_requests' = EmptyMap
          /\ \A k \in disc.snap : \A t \in Tasks :
                calls[t].id = k => calls'[t].fut # "pending"]_vars

\* the receive loop leaves recv() because the connection is closed
ClosedExit(h) ==
    /\ handlers[h].pc = "recv"
    /\ connState[handlers[h].conn] = "closed"
    /\ handlers'[h].pc = "exited"

C5_ResolvedOnce ==
    /\ [](\A t \in Tasks :
             /\ calls[t].settled <= 1
             /\ Settled(calls[t]) <=> calls[t].settled = 1
             /\ calls[t].pc = "done" <=> calls[t].out.kind # "none")
    /\ [][\A t \in Tasks :
             /\ calls[t].out.kind # "none" => calls'[t].out = calls[t].out
             /\ Settled(calls[t]) =>
                   /\ calls'[t].fut = calls[t].fut
                   /\ calls'[t].val = calls[t].val
                   /\ calls'[t].exc = calls[t].exc]_vars

\* a second reply frame for the id of a call that has already returned
C5_Witness ==
    \E t \in Tasks :
        /\ calls[t].out.kind = "return"
        /\ last = Received(calls[t].id)
        /\ calls[t].settled = 1

\* C6 (as stated): once every send_request call has exited, the table is empty
C6_Original ==
    (\A t \in Tasks : calls[t].pc \notin {"send", "wait"}) => pending_requests = EmptyMap

\* C7 (as stated): a call that was cancelled from outside has removed its own
\* entry from the table
C7_Original ==
    \A t \in Tasks :
        (calls[t].pc = "done" /\ calls[t].out.exc = Cancelled) =>
            calls[t].id \notin DOMAIN pending_requests

\* C8 (as stated): the call whose wait times out fails with a TimeoutError
\* naming its id and its entry is removed
C8_Original ==
    [][\A t \in Tasks : (calls[t].pc = "wait" /\ last' = TimedOutStep(t)) =>
          /\ calls'[t].out.exc.type = "TimeoutError"
          /\ calls'[t].out.exc.id = calls[t].id
          /\ calls[t].id \notin DOMAIN pending_requests']_vars

\* C8 (amended): the call whose wait times out raises APIError("Request <id>
\* timed out") and its entry is removed; a reply frame for that id handled
\* afterwards is dropped
C8_TimeoutThenLateReply ==
    [][\A t \in Tasks :
          /\ (calls[t].pc = "wait" /\ last' = TimedOutStep(t)) =>
                /\ calls'[t].out = Raise(TimedOut(calls[t].id))
                /\ calls'[t].out.exc.type = "APIError"
                /\ calls[t].id \notin DOMAIN pending_requests'
          /\ (calls[t].out = Raise(TimedOut(calls[t].id)) /\ last' = Received(calls[t].id)) =>
                FrameDropped]_vars

\* a reply frame for the id of a call that has timed out
C8_Witness ==
    \E t \in Tasks :
        /\ calls[t].id # NoId
        /\ calls[t].out = Raise(TimedOut(calls[t].id))
        /\ last = Received(calls[t].id)

\* C9: a reply frame whose data.id is not a key of the table is dropped
C9_UnknownIdDropped ==
    [][(last'.op = "message" /\ last'.id \notin DOMAIN pending_requests) => FrameDropped]_vars

\* a reply frame with no id, or with an id never issued, was handled while
\* another request was pending and the loop is still receiving
C9_Witness ==
    /\ last.op = "message"
    /\ last.id = NoId \/ last.id > request_counter
    /\ pending_requests # EmptyMap
    /\ \E h \in Conns : handlers[h].pc = "recv"

\* C10 (as stated): a call that returns returns the reply's response.payload
C10_Original ==
    \A t \in Tasks :
        calls[t].out.kind = "return" => calls[t].out.value = [payload |-> calls[t].val.payload]

\* C10 (amended): a waiting call whose reply has arrived raises APIError with
\* the reply's payload as message ("Unknown error" without one) when the
\* response type is "error"; otherwise send_request returns the reply's data
\* object {id, response}, and send_ws_info_request returns its
\* response.payload; the entry of that id is gone afterwards
C10_ReplyOutcome ==
    [][\A t \in Tasks :
          (calls[t].pc = "wait" /\ calls[t].fut = "result" /\ calls'[t].pc = "done") =>
              LET r == calls[t].val
                  o == calls'[t].out
              IN  /\ r.id = calls[t].id
                  /\ calls[t].id \notin DOMAIN pending_requests'
                  /\ IF r.rtype = "error"
                     THEN /\ o.kind = "raise"
                          /\ o.exc.type = "APIError"
                          /\ o.exc.detail = IF r.payload = Absent THEN "Unknown error"
                                                                 ELSE r.payload
                     ELSE /\ o.kind = "return"
                          /\ o.value = r
                          /\ o.facade = IF r.payload = Absent THEN "{}" ELSE r.payload]_vars

\* one call returned a reply carrying the payload, another raised the
\* APIError of an error reply
C10_Witness ==
    \E t, u \in Tasks :
        /\ calls[t].out.kind = "return"
        /\ calls[t].out.value.payload = "ETH:3000"
        /\ calls[t].out.facade = "ETH:3000"
        /\ calls[u].out = Raise(ApiErrorExc("ETH:3000"))

\* C11 (as stated): a malformed frame is dropped (the loop goes on, the table
\* and every call are as before) and no caller ever fails because of one
C11_Original ==
    /\ [][last'.op = "malformed" => FrameDropped]_vars
    /\ [](\A t \in Tasks : calls[t].out.exc # AttributeErrorExc)

\* the connections that are open, and the receive loops that have not exited
OpenConns == {c \in Conns : connState[c] = "open"}
RunningLoops == {h \in Conns : handlers[h].pc \in {"start", "recv"}}

\* C12 (as stated): at any time at most one connection is open and at most
\* one receive loop is running, and a loop reads only from the connection it
\* was started for
C12_Original ==
    /\ Cardinality(OpenConns) <= 1
    /\ Cardinality(RunningLoops) <= 1
    /\ \A h \in Conns : handlers[h].pc = "recv" => handlers[h].conn = h

\* C13: the accepted calls carry the ids 1, 2, ... in the order in which they
\* were accepted, each greater than every id assigned before it, and every
\* entry of the table belongs to the one call that was assigned its key
C13_FreshIds ==
    /\ \A t \in Tasks : calls[t].id # NoId => calls[t].id \in 1..request_counter
    /\ \A k \in 1..request_counter : \E t \in Tasks : calls[t].id = k
    /\ \A t, u \in Tasks :
          (t < u /\ calls[t].id # NoId /\ calls[u].id # NoId) => calls[t].id < calls[u].id
    /\ \A k \in DOMAIN pending_requests : calls[pending_requests[k]].id = k

\* the requests with ids 1 and 2 are pending together
C13_Witness ==
    /\ {1, 2} \subseteq DOMAIN pending_requests
    /\ pending_requests[1] # pending_requests[2]

\* C14: a step of one client object leaves the attributes, the table and the
\* futures of every other object as they were, and a future is only ever
\* completed by the object whose send_request created it
C14_NoInterference ==
    /\ [][\A i, j \in Instances :
             (actor' = i /\ j # i) =>
                 /\ clients'[j] = clients[j]
                 /\ Table(j)' = Table(j)
                 /\ futs'[j] = futs[j]]_vars
    /\ [](\A j \in Instances : \A k \in 1..MaxCalls :
             /\ futs[j][k].by \in {0, j}
             /\ k \in DOMAIN Table(j) => Table(j)[k] = j)

\* both objects had a request with id 1 pending at once, and the reply on
\* object 1 has resolved its own request and left the other pending
C14_Witness ==
    /\ futs[1][1].state = "result"
    /\ futs[2][1].state = "pending"
    /\ 1 \in DOMAIN Table(2)
    /\ actor = 1

\* the control frames that call u has put on the wire
FramesOf(u) ==
    {<<c, n>> \in Conns \X (1..MaxSubs) : n <= Len(wire[c]) /\ wire[c][n].call = u}

\* the step in which a suspended subscribe or unsubscribe call ends
SubReturns(u) == SubSent(u) \/ SubFail(u)

\* C20: a subscribe or unsubscribe call that returns has transmitted exactly
\* one control frame, its own (a call that raises has transmitted none); once
\* it awaits the transmission it can end without any frame being received; no
\* step of it changes the request counter, the table, a request or the
\* connection attributes; and a subscriptionResponse frame handled by the
\* loop is dropped and changes neither the calls nor the wire
C20_FireAndForget ==
    /\ [](\A u \in 1..MaxSubs :
             /\ Cardinality(FramesOf(u)) = IF subs[u].out = ReturnNone THEN 1 ELSE 0
             /\ \A f \in FramesOf(u) :
                   /\ wire[f[1]][f[2]].method = subs[u].method
                   /\ wire[f[1]][f[2]].subscription = subs[u].subscription
             /\ (subs[u].pc = "send" /\ LoopsStarted) => ENABLED SubReturns(u))
    /\ [][/\ subs' # subs =>
                /\ request_counter' = request_counter
                /\ pending_requests' = pending_requests
                /\ calls' = calls
                /\ websocket' = websocket /\ running' = running
                /\ handlers' = handlers
          /\ last'.op = "subscriptionResponse" =>
                /\ FrameDropped
                /\ subs' = subs /\ wire' = wire
                /\ websocket' = websocket /\ running' = running]_vars

\* a subscribe and an unsubscribe call have both returned while a request is
\* pending, and an acknowledgment frame has been handled after that
C20_Witness ==
    /\ \E u, v \in 1..MaxSubs :
          /\ subs[u].method = "subscribe" /\ subs[u].out = ReturnNone
          /\ subs[v].method = "unsubscribe" /\ subs[v].out = ReturnNone
    /\ pending_requests # EmptyMap
    /\ last.op = "subscriptionResponse"

\* C17 (as stated): a client that was never connected is disconnected, with
\* an empty table and the counter at its initial value, whatever disconnect()
\* calls it has seen; and a disconnect() called after a completed
\* disconnect() returns with the client disconnected, the counter unchanged
\* and the table empty (looked at when the callers of all its entries are
\* awaiting their replies)
C17_Original ==
    /\ [](websocket = 0 =>
             ~running /\ pending_requests = EmptyMap /\ request_counter = 0)
    /\ [][(/\ disc.pc = "closing" /\ disc.again /\ disc'.pc = "idle"
           /\ \A k \in DOMAIN pending_requests :
                 calls[pending_requests[k]].pc = "wait") =>
              /\ ~running'
              /\ request_counter' = request_counter
              /\ pending_requests' = EmptyMap]_vars

C19_Original ==
    [][\A h \in Conns : ClosedExit(h) => ~(websocket' # 0 /\ running')]_vars

\* C22: a call that is transmitting or has transmitted its envelope and whose
\* future is still unresolved (no reply, timeout, cancellation or close yet)
\* has its id in the table, bound to its own future, so a reply for it finds
\* the entry; an entry enters the table only in the step in which a
\* send_request call registers it, before its send; and a future receives a
\* reply payload only in a step of the receive loop handling a frame with
\* that call's id
C22_InsertBeforeSend ==
    /\ [](\A t \in Tasks :
             (calls[t].pc \in {"send", "wait"} /\ calls[t].fut = "pending") =>
                 /\ calls[t].id \in DOMAIN pending_requests
                 /\ pending_requests[calls[t].id] = t)
    /\ [][/\ \A k \in DOMAIN pending_requests' \ DOMAIN pending_requests :
                \E t \in Tasks : /\ calls[t].pc = "idle" /\ calls'[t].pc = "send"
                                  /\ calls'[t].id = k /\ pending_requests'[k] = t
          /\ \A t \in Tasks :
                (calls'[t].fut = "result" /\ calls[t].fut # "result") =>
                    /\ last' = Received(calls[t].id)
                    /\ calls[t].id \in DOMAIN pending_requests
                    /\ calls[t].id \notin DOMAIN pending_requests'
                    /\ ~SameLoops \/ \E h \in Conns : handlers[h].pc = "recv"]_vars

\* the reply for id 2 arrived while call 2 was still suspended in its send,
\* found the entry and resolved it; call 1 is awaiting its own reply
C22_Witness ==
    /\ calls[2].pc = "send" /\ calls[2].fut = "result" /\ last = Received(2)
    /\ calls[1].pc = "wait" /\ calls[1].fut = "pending"

\* the step in which call t leaves send_request with a failure of its own: its
\* timeout, an error-typed reply, or the failure of its send
FailsAlone(t) ==
    /\ calls[t].pc \in {"send", "wait"}
    /\ calls'[t].pc = "done"
    /\ \/ calls'[t].out = Raise(TimedOut(calls[t].id))
       \/ calls'[t].out.exc.text = "API Error: {error_msg}"
       \/ calls[t].pc = "send" /\ calls'[t].out = Raise(TransportClosed)

\* the calls whose future is failed, or which raise, in this step
FailedNow ==
    {t \in Tasks : \/ calls'[t].fut \in {"exception", "cancelled"} /\ calls[t].fut = "pending"
                   \/ calls'[t].out.kind = "raise" /\ calls[t].out.kind = "none"}

\* C24: when a call times out, gets an error-typed reply or fails to send,
\* that step changes no other call, removes at most the call's own entry
\* from the table (every other entry stays, bound to the same future) and
\* leaves the connection and the loops alone; a step in which more than one
\* call fails is a step in which a receive loop exits (disconnect or close)
C24_LocalFailure ==
    [][/\ \A t \in Tasks : FailsAlone(t) =>
             /\ \A u \in Tasks \ {t} : calls'[u] = calls[u]
             /\ pending_requests' = Pop(pending_requests, calls[t].id)
             /\ \A k \in DOMAIN pending_requests :
                   pending_requests[k] # t => (k \in DOMAIN pending_requests' /\
                                                pending_requests'[k] = pending_requests[k])
             /\ calls[t].id \notin DOMAIN pending_requests'
             /\ handlers' = handlers /\ connState' = connState
             /\ websocket' = websocket /\ running' = running
       /\ Cardinality(FailedNow) > 1 =>
             \E h \in Conns : handlers[h].pc # "exited" /\ handlers'[h].pc = "exited"]_vars

\* call 1 has just timed out while call 2 is awaiting its reply, still in the
\* table with its future unresolved
C24_Witness ==
    /\ last = TimedOutStep(1)
    /\ calls[1].out = Raise(TimedOut(1))
    /\ calls[2].pc = "wait" /\ calls[2].fut = "pending"
    /\ DOMAIN pending_requests = {2}

\* the step in which the send of call t raises
SendRaises(t) ==
    calls[t].pc = "send" /\ calls'[t].pc = "done" /\ calls'[t].out.exc.type # "CancelledError"

\* C28: when the send of a call raises, the call raises that exception to its
\* caller, its own id is not a key of the table afterwards, every other
\* entry and every other call are as before, and the counter keeps its value:
\* it never decreases, so the id is not assigned to a later call
C28_SendFailure ==
    /\ [][/\ \A t \in Tasks : SendRaises(t) =>
                /\ calls'[t].out = Raise(TransportClosed)
                /\ calls[t].id \notin DOMAIN pending_requests'
                /\ \A k \in DOMAIN pending_requests \ {calls[t].id} :
                      k \in DOMAIN pending_requests' /\
                      pending_requests'[k] = pending_requests[k]
                /\ DOMAIN pending_requests' \subseteq DOMAIN pending_requests
                /\ \A u \in Tasks \ {t} : calls'[u] = calls[u]
                /\ request_counter' = request_counter
          /\ request_counter' >= request_counter]_vars
    /\ [](\A t, u \in Tasks :
             (t # u /\ calls[t].id # NoId) => calls[u].id # calls[t].id)

\* the send of call 1 (id 1) raised while nothing else was pending, and the
\* call made after it got id 2 and is in the table
C28_Witness ==
    /\ calls[1].id = 1 /\ calls[1].out = Raise(TransportClosed)
    /\ calls[2].id = 2 /\ calls[2].pc = "send"
    /\ DOMAIN pending_requests = {2}

\* C27 (as stated): a send_request called on a client that is not connected
\* (never connected, disconnected, or with its connection closed by the
\* remote end) raises APIError("WebSocket not connected") and leaves the
\* counter and the table unchanged
C27_Original ==
    [][\A t \in Tasks :
          (/\ calls[t].pc = "idle" /\ calls'[t].pc # "idle"
           /\ websocket = 0 \/ ~running \/ connState[websocket] = "closed") =>
              /\ calls'[t].out = Raise(NotConnected)
              /\ request_counter' = request_counter
              /\ pending_requests' = pending_requests]_vars

\* C23: the step in which the loop handles a frame of a channel other than
\* "post" (a push, a subscriptionResponse acknowledgment) or a frame without
\* a channel, whatever data it carries, leaves the table, the counter, every
\* call and future, the connection attributes, the connections and the
\* loops as they were
C23_NoEffect ==
    [][last'.op \in Channels \ {"post"} =>
          /\ pending_requests' = pending_requests
          /\ request_counter' = request_counter
          /\ calls' = calls
          /\ websocket' = websocket /\ running' = running
          /\ connState' = connState /\ nconn' = nconn
          /\ handlers' = handlers]_vars

\* a push frame, or a frame without a channel, was handled while a request
\* was awaiting its reply: the request is still in the table, unresolved
C23_Witness ==
    /\ last.op \in {"orderUpdates", "allMids", "trades", Absent}
    /\ \E t \in Tasks : /\ calls[t].pc = "wait" /\ calls[t].fut = "pending"
                        /\ calls[t].id \in DOMAIN pending_requests

\* C21: on every connection the frames handled so far, followed by the frames
\* still queued, are the frames that arrived, in their order of arrival; a
\* step handles at most one frame, on one connection, and handles it to the
\* end; and a future is completed with a reply only by the frame that
\* arrived before every other frame not yet handled, so of two replies the
\* one that arrived first completes its future first
C21_ArrivalOrder ==
    /\ [](\A c \in Conns : arrived[c] = handled[c] \o inbox[c])
    /\ [][/\ \A c \in Conns :
                handled'[c] # handled[c] =>
                    /\ inbox[c] # << >>
                    /\ handled'[c] = Append(handled[c], Head(inbox[c]))
                    /\ inbox'[c] = Tail(inbox[c])
                    /\ last' = Received(Head(inbox[c]).data.id)
                    /\ \A d \in Conns \ {c} : handled'[d] = handled[d]
          /\ \A t \in Tasks :
                (calls'[t].fut = "result" /\ calls[t].fut = "pending") =>
                    \E c \in Conns : /\ inbox[c] # << >>
                                      /\ Head(inbox[c]).data.id = calls[t].id
                                      /\ handled'[c] # handled[c]]_vars

\* the replies for ids 2 and 1 arrived in that order while both requests were
\* awaited and before the loop ran: the first has been handled and has
\* completed future 2, the second is still queued and future 1 is unresolved
C21_Witness ==
    /\ Len(handled[1]) = 1 /\ handled[1][1].data.id = 2
    /\ Len(inbox[1]) = 1 /\ inbox[1][1].data.id = 1
    /\ calls[2].pc = "wait" /\ calls[2].fut = "result"
    /\ calls[1].pc = "wait" /\ calls[1].fut = "pending"

\* C25 (as stated): the id in the envelope a call transmits is the key under
\* which the call registered its future, whatever mapping the caller passed
C25_Original ==
    \A t \in Tasks : calls[t].pc \in {"send", "wait"} => sent[t] = calls[t].id

\* the step in which connect() returns on a client that disconnect() had
\* disconnected
Reconnects == websocket # 0 /\ ~running /\ nconn' = nconn + 1

\* C26: when connect() returns after a disconnect(), no request is left in the
\* table and no call still inside send_request has an unresolved future:
\* every request that was pending has been failed, resolved or has exited;
\* the receive loop of every earlier connection has finished its cleanup by
\* then, so that cleanup cannot fail or remove a request issued on the new
\* connection; and a loop that is running belongs to the current connection
C26_BoundToConnection ==
    /\ [][Reconnects =>
             /\ pending_requests = EmptyMap
             /\ \A t \in Tasks :
                   calls[t].pc \in {"send", "wait"} => calls[t].fut # "pending"
             /\ \A h \in Conns : handlers[h].pc \in {"none", "exited"}]_vars
    /\ [](\A h \in Conns :
             handlers[h].pc \in {"start", "recv"} => h = websocket)

\* request 1 was failed by the cleanup of the first connection's loop; the
\* client is connected again and request 2, issued on the second connection,
\* is in the table awaiting its reply
C26_Witness ==
    /\ websocket = 2 /\ running /\ connState = [c \in Conns |-> IF c = 1 THEN "closed" ELSE "open"]
    /\ handlers[1].pc = "exited" /\ handlers[2].pc = "recv"
    /\ calls[1].id = 1 /\ calls[1].out = Raise(ConnectionClosedExc)
    /\ calls[2].id = 2 /\ calls[2].pc = "wait" /\ calls[2].fut = "pending"
    /\ DOMAIN pending_requests = {2}

\* C29 (as stated): a subscribe_*_streams call never reads the socket of a
\* client object that is not connected yet, and unless its own connect()
\* fails it returns having sent its frame, also after disconnect_ws()
C29_Original ==
    \A u \in 1..MaxSubs :
        /\ streams[u].out.exc # NoneTypeError
        /\ streams[u].pc = "done" => streams[u].out \in {ReturnNone, Raise(ConnectionFailed)}

\* C30 (as stated): when HyperETHClient.connect() raises, no connection it
\* opened is open and no receive loop it started is running
C30_Original ==
    [][(hub.pc # "done" /\ hub'.pc = "done" /\ hub'.out.kind = "raise") =>
          \A i \in Instances : ~clients'[i].open /\ clients'[i].loop # "running"]_vars

====
